---- MODULE Spec2Model ----
(***************************************************************************)
(* Model of dokdo's cross-association analysis                             *)
(* (src/dokdo/api/cross_association.py): cross_association_table,          *)
(* cross_association_heatmap and cross_association_regplot.                *)
(*                                                                         *)
(* Conventions.                                                            *)
(*  - A float is a pair <<n, d>>: the fraction n/d in lowest terms, d > 0; *)
(*    <<0, 0>> is NaN, and every comparison with NaN is false (IEEE 754).  *)
(*  - Taxa are the feature columns 1..nfeat, targets are the target        *)
(*    columns 1..ntarg (column names are distinct, as pivot requires).     *)
(*  - Both tables hold at least one sample.                                *)
(*  - A str artifact is the path of a loadable FeatureTable artifact.      *)
(*  - What scipy returns for a pair of columns is an input: every pair     *)
(*    draws its (corr, pval) from StatResults.                             *)
(***************************************************************************)
EXTENDS Integers, Sequences, FiniteSets, TLC

\* ------------------------------------------------------------------ bounds
MaxFeatures == 2
MaxTargets == 2
MaxCells == 4
MaxNsig == 2

\* alpha=0.05, the default of the three entry points, in hundredths.
AlphaPct == 5

\* ------------------------------------------------------------------ floats
NaN == <<0, 0>>

IsNaN(x) == x[2] = 0

Abs(n) == IF n < 0 THEN -n ELSE n

RECURSIVE GCD(_, _)
GCD(a, b) == IF b = 0 THEN a ELSE GCD(b, a % b)

\* n/d in lowest terms (d > 0).
Frac(n, d) == LET g == GCD(Abs(n), d) IN <<n \div g, d \div g>>

Leq(a, b) == ~IsNaN(a) /\ ~IsNaN(b) /\ a[1] * b[2] <= b[1] * a[2]

Lt(a, b) == ~IsNaN(a) /\ ~IsNaN(b) /\ a[1] * b[2] < b[1] * a[2]

One == Frac(1, 1)

\* x * n / c, NaN staying NaN.
Scale(x, n, c) == IF IsNaN(x) THEN NaN ELSE Frac(x[1] * n, x[2] * c)

\* pvals_corrected[pvals_corrected > 1] = 1
ClipOne(x) == IF Lt(One, x) THEN One ELSE x

\* The least of a non-empty set of non-NaN floats.
MinFloat(S) == CHOOSE x \in S : \A y \in S : Leq(x, y)

alpha == Frac(AlphaPct, 100)

\* ------------------------------------------------------------- argument values
\* Python's None (distinct from every str).
PyNone == "<None>"

NormalizeValues == {PyNone, "log10", "clr", "zscore", "", "sqrt"}

MethodValues == {"pearson", "spearman", "kendall"}

MultitestValues == {"fdr_bh", "bonferroni", "bogus"}

\* bool(v) is False for None and for the empty string.
Falsy(v) == v \in {PyNone, ""}

\* What the stat function (pearsonr / spearmanr) can return for one pair:
\* results[0], results[1]; NaN for a constant column.
StatResults ==
    { [corr |-> Frac(9, 10),  pval |-> Frac(1, 100)],
      [corr |-> Frac(-7, 10), pval |-> Frac(4, 100)],
      [corr |-> NaN,          pval |-> NaN] }

\* ------------------------------------------------------------------ errors
NoError == [kind |-> "none", msg |-> "", names |-> ""]

Raise(kind, msg, names) == [kind |-> kind, msg |-> msg, names |-> names]

\* The names bound at module level by the import statements.
ModuleNames ==
    {"np", "pd", "sns", "plt", "spearmanr", "pearsonr", "multi", "Artifact", "Metadata"}

\* ------------------------------------------------------------------ tables
NoTable == [ncols |-> 0, transform |-> "absent"]

\* A samples x features table: its number of columns and what was applied to
\* the raw values.
Table(ncols, transform) == [ncols |-> ncols, transform |-> transform]

NoFrame == [columns |-> <<>>, rows |-> <<>>]

\* ------------------------------------------------ cross_association_table
\* The artifact values a caller can pass: an object of one of the types, and,
\* when it holds a feature table, that table's number of columns.
ArtifactValues ==
    { [type |-> t, ncols |-> n] : t \in {"Artifact", "str", "DataFrame"}, n \in 0..MaxFeatures }
        \cup { [type |-> "int", ncols |-> 0] }

\* if isinstance(artifact, Artifact) ... elif str ... elif pd.DataFrame ... else raise
ResolveArtifact(artifact) ==
    IF artifact.type = "Artifact" THEN
        [error |-> NoError, feats |-> Table(artifact.ncols, "raw")]
    ELSE IF artifact.type = "str" THEN
        [error |-> NoError, feats |-> Table(artifact.ncols, "raw")]
    ELSE IF artifact.type = "DataFrame" THEN
        [error |-> NoError, feats |-> Table(artifact.ncols, "raw")]
    ELSE
        [error |-> Raise("TypeError", "Incorrect feature table type", artifact.type),
         feats |-> NoTable]

\* Applying a transformation calls a function by its global name: a name the
\* module never bound raises NameError.
ApplyTransform(feats, fn, transform) ==
    IF fn \in ModuleNames
    THEN [error |-> NoError, feats |-> Table(feats.ncols, transform)]
    ELSE [error |-> Raise("NameError", "name is not defined", fn), feats |-> NoTable]

\* Normalization that leaves the table as it is for a value it does not know.
NormalizeFeatsSilent(feats, normalize) ==
    IF normalize = "log10" THEN ApplyTransform(feats, "np", "log10")
    ELSE IF normalize = "clr" THEN ApplyTransform(feats, "clr", "clr")
    ELSE IF normalize = "zscore" THEN ApplyTransform(feats, "zscore", "zscore")
    ELSE [error |-> NoError, feats |-> feats]

\* if normalize == 'log10' ... elif 'clr' ... elif 'zscore' ... elif not normalize ... else raise
NormalizeFeats(feats, normalize) ==
    IF normalize = "log10" THEN ApplyTransform(feats, "np", "log10")
    ELSE IF normalize = "clr" THEN ApplyTransform(feats, "clr", "clr")
    ELSE IF normalize = "zscore" THEN ApplyTransform(feats, "zscore", "zscore")
    ELSE IF Falsy(normalize) THEN [error |-> NoError, feats |-> feats]
    ELSE [error |-> Raise("ValueError", "Incorrect normalization method", normalize),
          feats |-> NoTable]

\* methods = {'pearson': pearsonr, 'spearman': spearmanr}
methods == {"pearson", "spearman"}

\* The (i, j) of the k-th iteration of the nested loops, i outer, j inner.
LoopCell(k, ntarg) == <<((k - 1) \div ntarg) + 1, ((k - 1) % ntarg) + 1>>

\* Iterations k.. of the loop: methods[method] is looked up in each iteration,
\* before the stat function is called; ncorr counts the calls made.
RECURSIVE CorrelateLoop(_, _, _, _, _, _)
CorrelateLoop(k, nfeat, ntarg, method, stat, acc) ==
    IF k > nfeat * ntarg THEN acc
    ELSE IF method \notin methods THEN
        [acc EXCEPT !.error = Raise("KeyError", "key not in methods", method)]
    ELSE
        LET c == LoopCell(k, ntarg) IN
        CorrelateLoop(k + 1, nfeat, ntarg, method, stat,
            [acc EXCEPT !.grid = @ @@ (c :> stat[c]), !.ncorr = @ + 1])

\* The loop calling the stat function on the first pair before it looks the
\* method up.
CorrelateCallFirst(nfeat, ntarg, method, stat) ==
    IF nfeat * ntarg > 0 /\ method \notin methods
    THEN [error |-> Raise("KeyError", "key not in methods", method), grid |-> <<>>, ncorr |-> 1]
    ELSE CorrelateLoop(1, nfeat, ntarg, method, stat,
            [error |-> NoError, grid |-> <<>>, ncorr |-> 0])

\* corr = np.zeros(...); pval = np.zeros(...); for i ...: for j ...:
Correlate(nfeat, ntarg, method, stat) ==
    CorrelateLoop(1, nfeat, ntarg, method, stat,
        [error |-> NoError, grid |-> <<>>, ncorr |-> 0])

\* corr.melt / pval.melt / pd.concat / reset_index: one row per cell of the
\* grid, target by target, the taxa of one target in column order; the row
\* label is the position.
Melt(nfeat, ntarg, grid) ==
    [columns |-> <<"taxon", "target", "corr", "pval">>,
     rows |-> [k \in 1..(nfeat * ntarg) |->
        LET i == ((k - 1) % nfeat) + 1
            j == ((k - 1) \div nfeat) + 1
        IN [idx |-> k - 1, taxon |-> i, target |-> j,
            corr |-> grid[<<i, j>>].corr, pval |-> grid[<<i, j>>].pval]]]

\* Benjamini-Hochberg as statsmodels computes it: sort, p * N / rank, running
\* minimum from the largest, clip to 1; np.minimum propagates NaN, and NaN
\* sorts last, so one NaN makes every adjusted value NaN.
FdrBh(pvals) ==
    LET N == Len(pvals)
        Rank(q) == Cardinality({l \in 1..N : Leq(pvals[l], q)})
    IN  IF \E l \in 1..N : IsNaN(pvals[l])
        THEN [l \in 1..N |-> NaN]
        ELSE [l \in 1..N |->
                ClipOne(MinFloat({ Scale(pvals[m], N, Rank(pvals[m])) :
                                     m \in {m \in 1..N : Leq(pvals[l], pvals[m])} }))]

\* Bonferroni: p * N, clipped to 1.
Bonferroni(pvals) ==
    [l \in 1..Len(pvals) |-> ClipOne(Scale(pvals[l], Len(pvals), 1))]

\* multi.multipletests(df['pval'], method=multitest)[1].  On no p-values at
\* all the library either divides by the number of tests (emptyOk false) or
\* returns no values; an unknown method name is rejected at the end of its
\* dispatch.
multipletests(pvals, multitest, emptyOk) ==
    IF Len(pvals) = 0 /\ ~emptyOk THEN
        [error |-> Raise("ZeroDivisionError", "float division by zero", ""), adjp |-> <<>>]
    ELSE IF multitest = "fdr_bh" THEN [error |-> NoError, adjp |-> FdrBh(pvals)]
    ELSE IF multitest = "bonferroni" THEN [error |-> NoError, adjp |-> Bonferroni(pvals)]
    ELSE [error |-> Raise("ValueError", "method not recognized", multitest), adjp |-> <<>>]

\* df['adjp'] = ...
AssignAdjp(df, adjp) ==
    [columns |-> Append(df.columns, "adjp"),
     rows |-> [k \in 1..Len(df.rows) |->
        [idx |-> df.rows[k].idx, taxon |-> df.rows[k].taxon, target |-> df.rows[k].target,
         corr |-> df.rows[k].corr, pval |-> df.rows[k].pval, adjp |-> adjp[k]]]]

\* df.pivot(index=..., columns=..., values=...): the labels found in the two
\* columns, and for each pair of labels the value of the row that carries it
\* (NaN where no row does); dups are the pairs carried by more than one row.
pivot(df, index, columns, values) ==
    LET K == 1..Len(df.rows)
        I == { df.rows[k][index] : k \in K }
        C == { df.rows[k][columns] : k \in K }
        At(p) == { k \in K : df.rows[k][index] = p[1] /\ df.rows[k][columns] = p[2] }
    IN [index |-> I, columns |-> C,
        cells |-> [p \in I \X C |->
            IF At(p) = {} THEN NaN ELSE df.rows[CHOOSE k \in At(p) : TRUE][values]],
        dups |-> { p \in I \X C : Cardinality(At(p)) > 1 }]

\* sig = adjp <= alpha
SigMask(adjp, a) == [p \in DOMAIN adjp.cells |-> Leq(adjp.cells[p], a)]

\* s = sig.sum(axis=1); s[s >= nsig].index
TaxonSurvivors(adjp, sig, nsig) ==
    { i \in adjp.index : Cardinality({ j \in adjp.columns : sig[<<i, j>>] }) >= nsig }

\* s = sig.sum(axis=0); s[s >= nsig].index
TargetSurvivors(adjp, sig, nsig) ==
    { j \in adjp.columns : Cardinality({ i \in adjp.index : sig[<<i, j>>] }) >= nsig }

\* df[df[column].isin(keep)]
IsIn(df, column, keep) ==
    LET Test(r) == r[column] \in keep
    IN [df EXCEPT !.rows = SelectSeq(df.rows, Test)]

\* The filter keeping a row whose taxon or whose target survives.
SignificanceFilterUnion(df, a, nsig) ==
    IF nsig = 0 THEN df
    ELSE
        LET adjp == pivot(df, "taxon", "target", "adjp")
            sig == SigMask(adjp, a)
            taxon_survivors == TaxonSurvivors(adjp, sig, nsig)
            target_survivors == TargetSurvivors(adjp, sig, nsig)
            Test(r) == r.taxon \in taxon_survivors \/ r.target \in target_survivors
        IN [df EXCEPT !.rows = SelectSeq(df.rows, Test)]

\* The filter correcting the p-values of the rows it keeps over again.
SignificanceFilterRecorrect(df, a, nsig) ==
    IF nsig = 0 THEN df
    ELSE
        LET adjp == pivot(df, "taxon", "target", "adjp")
            sig == SigMask(adjp, a)
            kept == IsIn(IsIn(df, "taxon", TaxonSurvivors(adjp, sig, nsig)),
                         "target", TargetSurvivors(adjp, sig, nsig))
            again == FdrBh([k \in 1..Len(kept.rows) |-> kept.rows[k].pval])
        IN [kept EXCEPT !.rows =
                [k \in 1..Len(kept.rows) |-> [kept.rows[k] EXCEPT !.adjp = again[k]]]]

\* The filter counting the targets again on what the taxon filter left.
SignificanceFilterSequential(df, a, nsig) ==
    IF nsig = 0 THEN df
    ELSE
        LET adjp == pivot(df, "taxon", "target", "adjp")
            byTaxon == IsIn(df, "taxon", TaxonSurvivors(adjp, SigMask(adjp, a), nsig))
            left == pivot(byTaxon, "taxon", "target", "adjp")
        IN IsIn(byTaxon, "target", TargetSurvivors(left, SigMask(left, a), nsig))

\* if nsig: ... df = df[df['taxon'].isin(...)]; df = df[df['target'].isin(...)]
SignificanceFilter(df, a, nsig) ==
    IF nsig = 0 THEN df
    ELSE
        LET adjp == pivot(df, "taxon", "target", "adjp")
            sig == SigMask(adjp, a)
            taxon_survivors == TaxonSurvivors(adjp, sig, nsig)
            target_survivors == TargetSurvivors(adjp, sig, nsig)
        IN IsIn(IsIn(df, "taxon", taxon_survivors), "target", target_survivors)

\* Rows without NaN key in ascending key order, equal keys in their order.
RECURSIVE StableSort(_, _)
StableSort(rows, by) ==
    IF Len(rows) <= 1 THEN rows
    ELSE
        LET h == Head(rows)
            rest == StableSort(Tail(rows), by)
            n == Cardinality({ k \in 1..Len(rest) : Lt(rest[k][by], h[by]) })
        IN SubSeq(rest, 1, n) \o <<h>> \o SubSeq(rest, n + 1, Len(rest))

\* Sorting that loses the rows whose key is NaN.
sort_values_dropna(df, by) ==
    LET Num(r) == ~IsNaN(r[by])
    IN [df EXCEPT !.rows = StableSort(SelectSeq(df.rows, Num), by)]

\* df.sort_values(by): ascending, NaN last; tables this small are sorted by
\* insertion, which keeps equal keys in their order.
sort_values(df, by) ==
    LET Num(r) == ~IsNaN(r[by])
        Nan(r) == IsNaN(r[by])
    IN [df EXCEPT !.rows = StableSort(SelectSeq(df.rows, Num), by) \o SelectSeq(df.rows, Nan)]

\* The table keeping the row labels it was sorted with.
reset_index_keep(df) == df

\* df.reset_index(drop=True)
reset_index(df) ==
    [df EXCEPT !.rows = [k \in 1..Len(df.rows) |-> [df.rows[k] EXCEPT !.idx = k - 1]]]

\* The pval column, in row order.
PvalColumn(df) == [k \in 1..Len(df.rows) |-> df.rows[k].pval]

\* What a call leaves behind when it raises.
Raised(error, feats, grid, ncorr, ntests) ==
    [error |-> error, feats |-> feats, grid |-> grid, ncorr |-> ncorr, ntests |-> ntests,
     df |-> NoFrame]

\* cross_association_table(artifact, target, method, normalize, alpha,
\* multitest, nsig): the error raised or the table returned, with the table
\* handed to the correlation loop (feats), the corr and pval matrices as far
\* as the loop filled them (grid), the number of stat-function calls
\* made (ncorr) and the number of p-values handed to the one correction call
\* (ntests, -1 when it was never called).
cross_association_table(artifact, ntarg, method, normalize, a, multitest, nsig, stat, emptyOk) ==
    LET loaded == ResolveArtifact(artifact)
        normed == NormalizeFeats(loaded.feats, normalize)
        nfeat == normed.feats.ncols
        looped == Correlate(nfeat, ntarg, method, stat)
        melted == Melt(nfeat, ntarg, looped.grid)
        corrected == multipletests(PvalColumn(melted), multitest, emptyOk)
        df == AssignAdjp(melted, corrected.adjp)
        kept == SignificanceFilter(df, a, nsig)
    IN  IF loaded.error # NoError THEN Raised(loaded.error, NoTable, <<>>, 0, -1)
        ELSE IF normed.error # NoError THEN Raised(normed.error, NoTable, <<>>, 0, -1)
        ELSE IF looped.error # NoError THEN
            Raised(looped.error, normed.feats, looped.grid, looped.ncorr, -1)
        ELSE IF corrected.error # NoError
            THEN Raised(corrected.error, normed.feats, looped.grid, looped.ncorr,
                        Len(melted.rows))
        ELSE [error |-> NoError, feats |-> normed.feats, grid |-> looped.grid,
              ncorr |-> looped.ncorr, ntests |-> Len(melted.rows),
              df |-> reset_index(sort_values(kept, "pval"))]

\* ---------------------------------------------- cross_association_heatmap
\* def val2sig(x): if x <= alpha: return '*'; return ''
val2sig(x, a) == IF Leq(x, a) THEN "*" ELSE ""

NoPlot == [kind |-> "none"]

\* corr = df.pivot(...); if marksig: pval = df.pivot(...);
\* annot = pval.applymap(val2sig); fmt = '' else: annot = None; fmt = '.2g'
HeatmapGrids(df, a, marksig) ==
    LET corr == pivot(df, "target", "taxon", "corr")
        pval == pivot(df, "target", "taxon", "pval")
    IN  IF marksig
        THEN [kind |-> "heatmap", corr |-> corr, annotated |-> TRUE,
              annot |-> [p \in DOMAIN pval.cells |-> val2sig(pval.cells[p], a)], fmt |-> ""]
        ELSE [kind |-> "heatmap", corr |-> corr, annotated |-> FALSE,
              annot |-> <<>>, fmt |-> ".2g"]

\* ---------------------------------------------- cross_association_regplot
\* df = pd.concat([artifact[taxon], target[name]], axis=1): artifact is
\* subscripted as it was passed; only a DataFrame has columns to select.
cross_association_regplot(artifact, ntarg, taxon, name) ==
    IF artifact.type # "DataFrame" THEN
        [error |-> Raise("TypeError", "artifact cannot be indexed by a taxon", artifact.type),
         plot |-> NoPlot]
    ELSE IF taxon > artifact.ncols THEN
        [error |-> Raise("KeyError", "no such column", "taxon"), plot |-> NoPlot]
    ELSE IF name > ntarg THEN
        [error |-> Raise("KeyError", "no such column", "name"), plot |-> NoPlot]
    ELSE [error |-> NoError, plot |-> [kind |-> "regplot", x |-> taxon, y |-> name]]

\* ------------------------------------------------------------ state machine
VARIABLES
    pc,      \* "idle", "called", or how the call ended: "returned" / "raised"
    call,    \* the entry point called and its arguments
    error,   \* the exception the call raised, NoError if none
    feats,   \* the feature table handed to the correlation loop
    grid,    \* the corr and pval matrices, as far as the loop filled them
    ncorr,   \* the number of pairwise correlations computed
    ntests,  \* the number of p-values the correction was called with, -1 if never
    df,      \* the table returned
    plot     \* what the plotting entry points hand to the renderer

vars == <<pc, call, error, feats, grid, ncorr, ntests, df, plot>>

NoCall == [entry |-> "none"]

Init ==
    /\ pc = "idle"
    /\ call = NoCall
    /\ error = NoError
    /\ feats = NoTable
    /\ grid = <<>>
    /\ ncorr = 0
    /\ ntests = -1
    /\ df = NoFrame
    /\ plot = NoPlot

\* The pairs of columns for which the call reaches the stat function.
StatDomain(artifact, ntarg, method, normalize) ==
    LET loaded == ResolveArtifact(artifact)
        normed == NormalizeFeats(loaded.feats, normalize)
    IN  IF loaded.error = NoError /\ normed.error = NoError /\ method \in methods
        THEN (1..normed.feats.ncols) \X (1..ntarg)
        ELSE {}

\* The library's two behaviours on an empty sequence of p-values.
EmptyChoices(artifact, ntarg) == IF artifact.ncols * ntarg = 0 THEN BOOLEAN ELSE {TRUE}

\* A caller calls cross_association_table(artifact, target, method,
\* normalize, alpha, multitest, nsig); target has ntarg columns.
CallTable ==
    /\ pc = "idle"
    /\ \E artifact \in ArtifactValues, ntarg \in 0..MaxTargets, method \in MethodValues,
          normalize \in NormalizeValues, multitest \in MultitestValues, nsig \in 0..MaxNsig :
        /\ artifact.ncols * ntarg <= MaxCells
        /\ call' = [entry |-> "table", artifact |-> artifact, ntarg |-> ntarg,
                    method |-> method, normalize |-> normalize,
                    multitest |-> multitest, nsig |-> nsig]
    /\ pc' = "called"
    /\ UNCHANGED <<error, feats, grid, ncorr, ntests, df, plot>>

\* A caller calls cross_association_heatmap(..., marksig).
CallHeatmap ==
    /\ pc = "idle"
    /\ \E artifact \in ArtifactValues, ntarg \in 0..MaxTargets, method \in MethodValues,
          normalize \in NormalizeValues, multitest \in MultitestValues, nsig \in 0..MaxNsig,
          marksig \in BOOLEAN :
        /\ artifact.ncols * ntarg <= MaxCells
        /\ call' = [entry |-> "heatmap", artifact |-> artifact, ntarg |-> ntarg,
                    method |-> method, normalize |-> normalize,
                    multitest |-> multitest, nsig |-> nsig, marksig |-> marksig]
    /\ pc' = "called"
    /\ UNCHANGED <<error, feats, grid, ncorr, ntests, df, plot>>

\* A caller calls cross_association_regplot(artifact, target, taxon, name).
CallRegplot ==
    /\ pc = "idle"
    /\ \E artifact \in ArtifactValues, ntarg \in 0..MaxTargets,
          taxon \in 1..MaxFeatures, name \in 1..MaxTargets :
        call' = [entry |-> "regplot", artifact |-> artifact, ntarg |-> ntarg,
                 taxon |-> taxon, name |-> name]
    /\ pc' = "called"
    /\ UNCHANGED <<error, feats, grid, ncorr, ntests, df, plot>>

\* The body of cross_association_table runs to its return or its exception.
RunTable ==
    /\ pc = "called"
    /\ call.entry = "table"
    /\ \E stat \in [StatDomain(call.artifact, call.ntarg, call.method, call.normalize)
                        -> StatResults],
          emptyOk \in EmptyChoices(call.artifact, call.ntarg) :
        LET r == cross_association_table(call.artifact, call.ntarg, call.method,
                    call.normalize, alpha, call.multitest, call.nsig, stat, emptyOk)
        IN  /\ pc' = IF r.error = NoError THEN "returned" ELSE "raised"
            /\ error' = r.error
            /\ feats' = r.feats
            /\ grid' = r.grid
            /\ ncorr' = r.ncorr
            /\ ntests' = r.ntests
            /\ df' = r.df
    /\ UNCHANGED <<call, plot>>

\* The body of cross_association_heatmap: the table, with the same
\* arguments, then the two grids handed to sns.clustermap.
RunHeatmap ==
    /\ pc = "called"
    /\ call.entry = "heatmap"
    /\ \E stat \in [StatDomain(call.artifact, call.ntarg, call.method, call.normalize)
                        -> StatResults],
          emptyOk \in EmptyChoices(call.artifact, call.ntarg) :
        LET r == cross_association_table(call.artifact, call.ntarg, call.method,
                    call.normalize, alpha, call.multitest, call.nsig, stat, emptyOk)
        IN  /\ pc' = IF r.error = NoError THEN "returned" ELSE "raised"
            /\ error' = r.error
            /\ feats' = r.feats
            /\ grid' = r.grid
            /\ ncorr' = r.ncorr
            /\ ntests' = r.ntests
            /\ df' = r.df
            /\ plot' = IF r.error = NoError
                       THEN HeatmapGrids(r.df, alpha, call.marksig)
                       ELSE NoPlot
    /\ UNCHANGED call

\* The body of cross_association_regplot.
RunRegplot ==
    /\ pc = "called"
    /\ call.entry = "regplot"
    /\ LET r == cross_association_regplot(call.artifact, call.ntarg, call.taxon, call.name)
       IN  /\ pc' = IF r.error = NoError THEN "returned" ELSE "raised"
           /\ error' = r.error
           /\ plot' = r.plot
    /\ UNCHANGED <<call, feats, grid, ncorr, ntests, df>>

\* The caller has taken the result or the exception; nothing is kept between
\* calls.
Return ==
    /\ pc \in {"returned", "raised"}
    /\ pc' = "idle"
    /\ call' = NoCall
    /\ error' = NoError
    /\ feats' = NoTable
    /\ grid' = <<>>
    /\ ncorr' = 0
    /\ ntests' = -1
    /\ df' = NoFrame
    /\ plot' = NoPlot

Next ==
    \/ CallTable
    \/ CallHeatmap
    \/ CallRegplot
    \/ RunTable
    \/ RunHeatmap
    \/ RunRegplot
    \/ Return

Spec == Init /\ [][Next]_vars

\* ------------------------------------------------------------------ claims
\* The call was of cross_association_table, directly or by the heatmap.
TableCall == call.entry \in {"table", "heatmap"}

Ended == pc \in {"returned", "raised"}

SupportedTypes == {"Artifact", "str", "DataFrame"}

\* The table before the filter: every cell of the grid, jointly corrected.
FullFrame ==
    LET melted == Melt(call.artifact.ncols, call.ntarg, grid)
    IN AssignAdjp(melted, multipletests(PvalColumn(melted), call.multitest, TRUE).adjp)

\* sig = adjp <= alpha on the unfiltered grid, by (taxon, target).
FullSig ==
    LET full == FullFrame
    IN [c \in (1..call.artifact.ncols) \X (1..call.ntarg) |->
            Leq(full.rows[(c[2] - 1) * call.artifact.ncols + c[1]].adjp, alpha)]

\* The rows of the returned table that carry the pair (i, j).
RowsOf(i, j) == { k \in 1..Len(df.rows) : df.rows[k].taxon = i /\ df.rows[k].target = j }

\* C1: with nsig = k > 0, a (taxon, target) row is in the returned table if
\* and only if, on the full unfiltered grid, the taxon has at least k
\* significant targets and the target has at least k significant taxa.
C1_FilterIntersection ==
    (pc = "returned" /\ TableCall /\ call.nsig > 0) =>
        LET sig == FullSig
            SigTargets(i) == Cardinality({ j \in 1..call.ntarg : sig[<<i, j>>] })
            SigTaxa(j) == Cardinality({ i \in 1..call.artifact.ncols : sig[<<i, j>>] })
        IN \A i \in 1..call.artifact.ncols, j \in 1..call.ntarg :
            (RowsOf(i, j) # {}) <=> (SigTargets(i) >= call.nsig /\ SigTaxa(j) >= call.nsig)

\* A filtered table with a kept row whose target has, among the rows that
\* were kept, fewer than nsig significant ones: counting again after the
\* removals would drop it.
C1_Witness ==
    /\ pc = "returned" /\ TableCall /\ call.nsig > 0
    /\ Len(df.rows) < call.artifact.ncols * call.ntarg
    /\ \E k \in 1..Len(df.rows) :
        Cardinality({ m \in 1..Len(df.rows) :
            df.rows[m].target = df.rows[k].target /\ Leq(df.rows[m].adjp, alpha) }) < call.nsig

\* C2: with nsig = 0 the returned table has exactly F x T rows, each
\* (taxon, target) pair of the Cartesian product in exactly one row.
C2_ShapeInvariant ==
    (pc = "returned" /\ TableCall /\ call.nsig = 0) =>
        /\ Len(df.rows) = call.artifact.ncols * call.ntarg
        /\ \A i \in 1..call.artifact.ncols, j \in 1..call.ntarg :
            Cardinality(RowsOf(i, j)) = 1

\* An unfiltered 2 x 2 table with a NaN p-value and a pair that is not significant.
C2_Witness ==
    /\ pc = "returned" /\ TableCall /\ call.nsig = 0
    /\ Len(df.rows) = 4
    /\ \E k \in 1..Len(df.rows) : IsNaN(df.rows[k].pval)
    /\ \E k \in 1..Len(df.rows) : Lt(alpha, df.rows[k].adjp)

\* The arguments other than the method are valid and their steps succeed.
OtherArgumentsFine ==
    /\ call.artifact.type \in SupportedTypes
    /\ call.normalize \in {PyNone, "log10"}
    /\ call.multitest \in {"fdr_bh", "bonferroni"}

\* C3: for tables of any number of columns, zero included, a call with a
\* method that is not 'pearson' or 'spearman' ends in the invalid-method
\* error and returns no table.
C3_InvalidMethodFails ==
    (Ended /\ TableCall /\ call.method \notin methods /\ OtherArgumentsFine) =>
        /\ pc = "raised"
        /\ error = Raise("KeyError", "key not in methods", call.method)
        /\ df = NoFrame

RecognizedNormalize == {PyNone, "log10", "clr", "zscore"}

\* C4: for each of the four recognized normalization settings the
\* normalization step raises nothing and hands a table of the same shape to
\* the correlation loop; with None that table is the input.
C4_RecognizedNormalizeCompletes ==
    (Ended /\ TableCall /\ call.artifact.type \in SupportedTypes
           /\ call.normalize \in RecognizedNormalize) =>
        /\ error.kind # "NameError"
        /\ feats = Table(call.artifact.ncols,
                         IF call.normalize = PyNone THEN "raw" ELSE call.normalize)

InvalidNormalization(v) == Raise("ValueError", "Incorrect normalization method", v)

\* C5 as stated: any normalize value other than the four recognized settings
\* fails with the invalid-normalization error naming that value, and no table
\* is returned.
C5_UnrecognizedNormalizeFails ==
    (Ended /\ TableCall /\ call.artifact.type \in SupportedTypes
           /\ call.normalize \notin RecognizedNormalize) =>
        /\ pc = "raised"
        /\ error = InvalidNormalization(call.normalize)
        /\ df = NoFrame

\* C5 as amended: with a supported artifact, a truthy normalize value other
\* than 'log10', 'clr' and 'zscore' fails with the invalid-normalization error
\* naming that value and no table is returned; a falsy value other than None
\* (the empty string) is taken as None: no normalization error, and the input
\* table is handed on unchanged.
C5_TruthyUnrecognizedNormalizeFails ==
    (Ended /\ TableCall /\ call.artifact.type \in SupportedTypes
           /\ call.normalize \notin RecognizedNormalize) =>
        IF Falsy(call.normalize)
        THEN /\ error.msg # "Incorrect normalization method"
             /\ feats = Table(call.artifact.ncols, "raw")
        ELSE /\ pc = "raised"
             /\ error = InvalidNormalization(call.normalize)
             /\ df = NoFrame

\* A call with normalize = 'sqrt' on a table with columns, otherwise valid,
\* that raised.
C5_Witness ==
    /\ pc = "raised" /\ call.entry = "table"
    /\ call.artifact.type = "DataFrame" /\ call.artifact.ncols = 2 /\ call.ntarg = 2
    /\ call.method = "spearman" /\ call.multitest = "fdr_bh"
    /\ call.normalize = "sqrt"
    /\ error.names = "sqrt"

ArgumentErrors ==
    {"Incorrect feature table type", "Incorrect normalization method",
     "key not in methods", "method not recognized"}

\* C6 as stated: on a call that ends in an argument error (artifact type,
\* normalize, method, multitest name) no pairwise correlation was computed
\* before the error was raised.
C6_ArgumentErrorsBeforeCorrelation ==
    (pc = "raised" /\ TableCall /\ error.msg \in ArgumentErrors) => ncorr = 0

\* C6 as amended: a call that ends in the artifact-type, normalize or method
\* error has computed no pairwise correlation and has not called the
\* correction; a call that ends in the invalid-multitest error has computed all
\* F x T correlations, the error coming from the correction call; in each case
\* no table is returned.
C6_ArgumentErrorsOrder ==
    (pc = "raised" /\ TableCall /\ error.msg \in ArgumentErrors) =>
        /\ df = NoFrame
        /\ IF error.msg = "method not recognized"
           THEN /\ ncorr = call.artifact.ncols * call.ntarg
                /\ ntests = ncorr
           ELSE /\ ncorr = 0
                /\ ntests = -1

\* An invalid multitest name rejected after the four correlations of a 2 x 2
\* grid were computed.
C6_Witness ==
    /\ pc = "raised" /\ TableCall
    /\ error.msg = "method not recognized"
    /\ ncorr = 4

\* C7: with marksig set, the cell of a (target, taxon) pair is annotated '*'
\* if and only if the pair's adjusted p-value satisfies adjp <= alpha, and ''
\* otherwise.
C7_MarkerIsSignificanceMask ==
    (pc = "returned" /\ call.entry = "heatmap" /\ call.marksig) =>
        LET sig == FullSig
        IN \A p \in DOMAIN plot.annot :
            plot.annot[p] = (IF sig[<<p[2], p[1]>>] THEN "*" ELSE "")

\* C8: the returned rows are in non-decreasing order of raw pval (rows
\* without a p-value, NaN, last), the row index is 0, 1, ..., n-1, and the
\* columns are taxon, target, corr, pval, adjp in that order.
C8_SortedAndReindexed ==
    (pc = "returned" /\ TableCall) =>
        /\ df.columns = <<"taxon", "target", "corr", "pval", "adjp">>
        /\ \A k \in 1..Len(df.rows) : df.rows[k].idx = k - 1
        /\ \A k, m \in 1..Len(df.rows) :
            k < m => /\ ~Lt(df.rows[m].pval, df.rows[k].pval)
                     /\ IsNaN(df.rows[k].pval) => IsNaN(df.rows[m].pval)

\* A table of at least three rows whose first row was not the first row
\* before the sort, with two different p-values and a NaN one in the last row.
C8_Witness ==
    /\ pc = "returned" /\ TableCall
    /\ Len(df.rows) >= 3
    /\ Lt(df.rows[1].pval, df.rows[2].pval)
    /\ IsNaN(df.rows[Len(df.rows)].pval)
    /\ <<df.rows[1].taxon, df.rows[1].target>> # <<1, 1>>

UnsupportedType(t) == Raise("TypeError", "Incorrect feature table type", t)

\* C9: each of the three entry points resolves an artifact object, a path or
\* a raw table to a table before using it, and fails with the
\* unsupported-type error naming the received type for any other type.
C9_EveryEntryResolvesArtifact ==
    Ended =>
        IF call.artifact.type \in SupportedTypes
        THEN error.kind # "TypeError"
        ELSE pc = "raised" /\ error = UnsupportedType(call.artifact.type)

\* The table the same call returns with nsig = 0.
Unfiltered ==
    cross_association_table(call.artifact, call.ntarg, call.method, call.normalize, alpha,
                            call.multitest, 0, grid, TRUE).df

\* C10: the correction is called once, with all F x T raw p-values, and the
\* adjp of every row returned with nsig > 0 equals the adjp of the same
\* (taxon, target) pair in the table returned with nsig = 0.
C10_AdjpBeforeFilter ==
    (pc = "returned" /\ TableCall /\ call.nsig > 0) =>
        LET all == Unfiltered.rows
        IN  /\ ntests = call.artifact.ncols * call.ntarg
            /\ \A k \in 1..Len(df.rows) :
                \E m \in 1..Len(all) :
                    /\ all[m].taxon = df.rows[k].taxon
                    /\ all[m].target = df.rows[k].target
                    /\ all[m].adjp = df.rows[k].adjp

\* A filtered table that lost rows and kept one whose adjp differs from what
\* correcting the kept p-values alone would give.
C10_Witness ==
    /\ pc = "returned" /\ TableCall /\ call.nsig > 0
    /\ Len(df.rows) > 0
    /\ Len(df.rows) < call.artifact.ncols * call.ntarg
    /\ \E k \in 1..Len(df.rows) :
        df.rows[k].adjp # multipletests(PvalColumn(df), call.multitest, TRUE).adjp[k]

\* The taxa and the targets that appear in the returned table.
TaxaOf == { df.rows[k].taxon : k \in 1..Len(df.rows) }

TargetsOf == { df.rows[k].target : k \in 1..Len(df.rows) }

\* C11: for any nsig, the (taxon, target) pairs of the returned table are
\* exactly the Cartesian product of the taxa and the targets that appear in
\* it, each pair in one row; so the target x taxon grid the heatmap pivots
\* from it has, in every cell, the corr of the one row of that pair, no cell
\* is carried by two rows, and the marker grid has the same cells.
C11_TableIsProductGrid ==
    (pc = "returned" /\ TableCall) =>
        /\ \A i \in TaxaOf, j \in TargetsOf : Cardinality(RowsOf(i, j)) = 1
        /\ Len(df.rows) = Cardinality(TaxaOf) * Cardinality(TargetsOf)
        /\ call.entry = "heatmap" =>
            /\ plot.corr.index = TargetsOf
            /\ plot.corr.columns = TaxaOf
            /\ plot.corr.dups = {}
            /\ DOMAIN plot.corr.cells = TargetsOf \X TaxaOf
            /\ \A p \in DOMAIN plot.corr.cells :
                \E k \in RowsOf(p[2], p[1]) : plot.corr.cells[p] = df.rows[k].corr
            /\ call.marksig => DOMAIN plot.annot = DOMAIN plot.corr.cells

\* A heatmap of a filtered table that lost a taxon and kept two targets, with
\* markers.
C11_Witness ==
    /\ pc = "returned" /\ call.entry = "heatmap" /\ call.marksig /\ call.nsig > 0
    /\ Cardinality(TaxaOf) < call.artifact.ncols
    /\ Cardinality(TargetsOf) >= 2
    /\ Cardinality(DOMAIN plot.corr.cells) = Len(df.rows)

====
